---- MODULE Spec2Model ----
(***************************************************************************)
(* Model of src/agent/__init__.py: the two LLM facades                     *)
(* VulnerabilitySummaryParser and CPEParser, the pydantic schemas Purl and  *)
(* Versions that validate the model's structured output, and the version   *)
(* range resolution of get_version_ranges.                                  *)
(*                                                                          *)
(* A Python string is modelled as a sequence of tokens (each token stands   *)
(* for a run of characters), so that the concatenation                      *)
(* f"vers:{eco}/" + constraint and the parsers that take it apart again     *)
(* are computed and not assumed.                                            *)
(***************************************************************************)
EXTENDS Naturals, Sequences, FiniteSets

\* Bounds of the model.
MaxLen == 2      \* longest affected_versions / fixed_versions list the model answers with
MaxCalls == 2    \* facade calls that may be in flight at once

None == "None"

(***************************************************************************)
(* JSON values of the model's structured output.  kind = "absent" stands   *)
(* for a key that is not present in the JSON object.                       *)
(***************************************************************************)
JAbsent == [kind |-> "absent", text |-> <<>>, items |-> <<>>]
JNum == [kind |-> "num", text |-> <<"42">>, items |-> <<>>]
JStr(s) == [kind |-> "str", text |-> s, items |-> <<>>]
JList(xs) == [kind |-> "list", text |-> <<>>, items |-> xs]

SeqsUpTo(S, n) == UNION {[1..k -> S] : k \in 0..n}

\* A raw output carries the three keys the two schemas read; any of them may
\* be absent or of the wrong JSON type.
RawOutput(string, affected, fixed) ==
    [string |-> string, affected_versions |-> affected, fixed_versions |-> fixed]

NoRaw == RawOutput(JAbsent, JAbsent, JAbsent)

(***************************************************************************)
(* Strings the model may answer with.                                      *)
(***************************************************************************)
PurlStrings ==
    { <<"pkg", ":", "pypi", "/", "django", "@", "4.2.0">>,
      <<"pkg", ":", "maven", "/", "org.apache", "/", "commons">>,
      <<"django">>,
      <<"pkg", ":", "pypi">>,
      <<>> }

ConstraintStrings ==
    { <<">=", "1.2.3">>, <<"2.0.0">>, <<"Not Fixed">> }

\* Raw outputs for an agent whose output_type is Purl.
PurlOutputs ==
    {RawOutput(v, JAbsent, JAbsent) :
        v \in {JAbsent, JNum} \cup {JStr(s) : s \in PurlStrings}}

\* Values the model may put in affected_versions / fixed_versions.
VersionFieldValues ==
    {JAbsent, JStr(<<"2.0.0">>), JList(<<JStr(<<"2.0.0">>), JNum>>)}
        \cup {JList(xs) : xs \in SeqsUpTo({JStr(s) : s \in ConstraintStrings}, MaxLen)}

\* Raw outputs for an agent whose output_type is Versions.
VersionsOutputs ==
    {RawOutput(JAbsent, a, f) : a \in VersionFieldValues, f \in VersionFieldValues}

(***************************************************************************)
(* PackageURL.from_string, as far as the facades use it: the scheme must   *)
(* be "pkg", a type and a name are required, namespace and version are     *)
(* optional.                                                                *)
(***************************************************************************)
LastIndexOf(s, t) ==
    IF \E i \in 1..Len(s) : s[i] = t
    THEN CHOOSE i \in 1..Len(s) : s[i] = t /\ \A j \in (i + 1)..Len(s) : s[j] # t
    ELSE 0

Before(s, i) == SubSeq(s, 1, i - 1)
After(s, i) == SubSeq(s, i + 1, Len(s))

\* remainder after "pkg:"; <<>> when the scheme is missing
PurlRemainder(s) ==
    IF Len(s) >= 2 /\ s[1] = "pkg" /\ s[2] = ":" THEN After(s, 2) ELSE <<>>

\* path of the purl after "type/", without the "@version" part
PurlPath(s) ==
    LET r == After(PurlRemainder(s), 2)
        at == LastIndexOf(r, "@")
    IN  IF at = 0 THEN r ELSE Before(r, at)

PurlVersion(s) ==
    LET r == After(PurlRemainder(s), 2)
        at == LastIndexOf(r, "@")
    IN  IF at = 0 \/ at = Len(r) THEN None ELSE r[at + 1]

PurlIsValid(s) ==
    LET r == PurlRemainder(s)
        p == PurlPath(s)
    IN  /\ Len(r) >= 2
        /\ r[1] \notin {"/", "@"}
        /\ r[2] = "/"
        /\ Len(p) \in {1, 3}
        /\ p[Len(p)] \notin {"/", "@"}
        /\ (Len(p) = 3 => p[2] = "/" /\ p[1] \notin {"/", "@"})

PurlFromString(s) ==
    LET p == PurlPath(s)
    IN  [type |-> PurlRemainder(s)[1],
         namespace |-> IF Len(p) = 3 THEN p[1] ELSE None,
         name |-> p[Len(p)],
         version |-> PurlVersion(s)]

NoPurl == [type |-> None, namespace |-> None, name |-> None, version |-> None]

(***************************************************************************)
(* univers: RANGE_CLASS_BY_SCHEMES and VersionRange.from_string.           *)
(***************************************************************************)
RegisteredSchemes == {"pypi", "npm"}

\* ecosystem identifiers a caller may pass
Ecosystems == RegisteredSchemes \cup {"unknown"}

Comparators == {">=", "<=", ">", "<", "!=", "="}

ValidVersions == {"1.2.3", "2.0.0"}

\* f"vers:{supported_ecosystem}/" + version_range
VersString(eco, c) == <<"vers", ":", eco, "/">> \o c

VersScheme(s) == IF Len(s) >= 3 THEN s[3] ELSE None

VersConstraint(s) == SubSeq(s, 5, Len(s))

VersIsValid(s) ==
    LET c == VersConstraint(s)
    IN  /\ Len(s) >= 5
        /\ s[1] = "vers" /\ s[2] = ":" /\ s[4] = "/"
        /\ VersScheme(s) \in RegisteredSchemes
        /\ \/ Len(c) = 1 /\ c[1] \in ValidVersions
           \/ Len(c) = 2 /\ c[1] \in Comparators /\ c[2] \in ValidVersions

VersFromString(s) ==
    LET c == VersConstraint(s)
    IN  [scheme |-> VersScheme(s),
         comparator |-> IF Len(c) = 2 THEN c[1] ELSE "=",
         version |-> c[Len(c)]]

(***************************************************************************)
(* The pydantic schemas.                                                    *)
(***************************************************************************)
NoOutput == [string |-> <<>>, affected_versions |-> <<>>, fixed_versions |-> <<>>]

IsStr(v) == v.kind = "str"

IsListOfStr(v) == v.kind = "list" /\ \A i \in 1..Len(v.items) : IsStr(v.items[i])

Texts(v) == [i \in 1..Len(v.items) |-> v.items[i].text]

\* Mutant: the field validator never raises.
check_valid_purl_NoRaise(v) == TRUE

\* class Purl: string: str, with the field validator check_valid_purl
check_valid_purl(v) == PurlIsValid(v)

PurlSchemaOk(raw) == IsStr(raw.string) /\ check_valid_purl(raw.string.text)

PurlSchemaOutput(raw) == [NoOutput EXCEPT !.string = raw.string.text]

\* Mutant: only the first field of Versions is checked.
VersionsSchemaOk_AffectedOnly(raw) == IsListOfStr(raw.affected_versions)

\* class Versions: affected_versions: List[str], fixed_versions: List[str]
VersionsSchemaOk(raw) ==
    IsListOfStr(raw.affected_versions) /\ IsListOfStr(raw.fixed_versions)

VersionsSchemaOutput(raw) ==
    [NoOutput EXCEPT !.affected_versions = Texts(raw.affected_versions),
                     !.fixed_versions = Texts(raw.fixed_versions)]

(***************************************************************************)
(* State.                                                                   *)
(***************************************************************************)
VARIABLES
    environ,            \* the process environment, after load_dotenv()
    OLLAMA_MODEL_NAME,  \* module constants, read from the environment at import
    OLLAMA_BASE_URL,
    OPENAI_API_KEY,
    OPENAI_MODEL_NAME,
    facade,             \* the constructed instance of each facade class
    calls               \* the facade calls in flight, one frame per slot

vars == <<environ, OLLAMA_MODEL_NAME, OLLAMA_BASE_URL, OPENAI_API_KEY,
          OPENAI_MODEL_NAME, facade, calls>>

globals == <<OLLAMA_MODEL_NAME, OLLAMA_BASE_URL, OPENAI_API_KEY, OPENAI_MODEL_NAME>>

Facades == {"VulnerabilitySummaryParser", "CPEParser"}

Slots == 1..MaxCalls

EnvNames ==
    {"OLLAMA_MODEL_NAME", "OLLAMA_BASE_URL", "OPENAI_API_KEY", "OPENAI_MODEL_NAME"}

\* os.getenv gives None for an unset variable; a variable may be set to "".
EnvValues(k) ==
    CASE k = "OLLAMA_MODEL_NAME" -> {None, "", "llama3"}
      [] k = "OLLAMA_BASE_URL" -> {None, "", "http://localhost:11434/v1"}
      [] k = "OPENAI_API_KEY" -> {None, "sk-key"}
      [] k = "OPENAI_MODEL_NAME" -> {None, "gpt-4o"}

Environments == {e \in [EnvNames -> UNION {EnvValues(k) : k \in EnvNames}] :
                    \A k \in EnvNames : e[k] \in EnvValues(k)}

HostedEnv == [OLLAMA_MODEL_NAME |-> None, OLLAMA_BASE_URL |-> None,
              OPENAI_API_KEY |-> "sk-key", OPENAI_MODEL_NAME |-> "gpt-4o"]

LocalEnv == [OLLAMA_MODEL_NAME |-> "llama3",
             OLLAMA_BASE_URL |-> "http://localhost:11434/v1",
             OPENAI_API_KEY |-> None, OPENAI_MODEL_NAME |-> None]

\* Python truthiness of an Optional[str]
Truthy(v) == v # None /\ v # ""

OpenAIModel(endpoint, model_name, openai_client, api_key) ==
    [endpoint |-> endpoint, model_name |-> model_name,
     openai_client |-> openai_client, api_key |-> api_key]

\* Mutant: one of the two local settings is enough to select the local endpoint.
SummaryParserModel_Or ==
    IF Truthy(OLLAMA_MODEL_NAME) \/ Truthy(OLLAMA_BASE_URL)
    THEN OpenAIModel("local", OLLAMA_MODEL_NAME, OLLAMA_BASE_URL, None)
    ELSE OpenAIModel("hosted", OPENAI_MODEL_NAME, None, OPENAI_API_KEY)

\* VulnerabilitySummaryParser.__init__: self.model
SummaryParserModel ==
    IF Truthy(OLLAMA_MODEL_NAME) /\ Truthy(OLLAMA_BASE_URL)
    THEN OpenAIModel("local", OLLAMA_MODEL_NAME, OLLAMA_BASE_URL, None)
    ELSE OpenAIModel("hosted", OPENAI_MODEL_NAME, None, OPENAI_API_KEY)

\* CPEParser.__init__: self.model
CPEParserModel ==
    IF Truthy(OLLAMA_MODEL_NAME) /\ Truthy(OLLAMA_BASE_URL)
    THEN OpenAIModel("local", OLLAMA_MODEL_NAME, OLLAMA_BASE_URL, None)
    ELSE OpenAIModel("hosted", OPENAI_MODEL_NAME, None, OPENAI_API_KEY)

Agent(model, system_prompt, output_type) ==
    [model |-> model, system_prompt |-> system_prompt, temperature |-> 0,
     seed |-> 42, output_type |-> output_type]

\* no instance of the class has been constructed yet
Unconstructed == [constructed |-> FALSE]

NewSummaryParser ==
    [constructed |-> TRUE,
     model |-> SummaryParserModel,
     purl_agent |-> Agent(SummaryParserModel, "prompt_purl_from_summary", "Purl"),
     versions_agent |->
         Agent(SummaryParserModel, "prompt_version_from_summary", "Versions")]

NewCPEParser ==
    [constructed |-> TRUE,
     model |-> CPEParserModel,
     purl_agent |-> Agent(CPEParserModel, "prompt_purl_from_cpe", "Purl")]

NewFacade(f) ==
    IF f = "VulnerabilitySummaryParser" THEN NewSummaryParser ELSE NewCPEParser

(***************************************************************************)
(* A call frame.                                                            *)
(***************************************************************************)
NoResult == [kind |-> "none", purl |-> NoPurl, affected |-> <<>>, fixed |-> <<>>]

PurlResult(p) == [NoResult EXCEPT !.kind = "purl", !.purl = p]

RangesResult(a, f) == [NoResult EXCEPT !.kind = "ranges", !.affected = a, !.fixed = f]

IdleCall ==
    [pc |-> "idle", facade |-> None, method |-> None, text |-> None,
     supported_ecosystem |-> None, requests |-> 0, endpoint |-> None,
     raw |-> NoRaw, output |-> NoOutput,
     affected_version_objs |-> <<>>, fixed_version_objs |-> <<>>,
     result |-> NoResult, error |-> None, log |-> <<>>]

Finished(c) == calls[c].pc \in {"done", "failed"}

\* an exception leaves the frame: its locals are gone and nothing is returned
Raise(call, err) ==
    [call EXCEPT !.pc = "failed", !.error = err,
                 !.affected_version_objs = <<>>, !.fixed_version_objs = <<>>,
                 !.log = Append(@, "raise")]

UNCHANGED_config ==
    UNCHANGED <<environ, OLLAMA_MODEL_NAME, OLLAMA_BASE_URL, OPENAI_API_KEY,
                OPENAI_MODEL_NAME, facade>>

\* the agent a method runs
AgentOf(call) ==
    IF call.method = "get_version_ranges"
    THEN facade[call.facade].versions_agent
    ELSE facade[call.facade].purl_agent

(***************************************************************************)
(* Operations.                                                              *)
(***************************************************************************)
\* VulnerabilitySummaryParser.get_version_ranges(summary, supported_ecosystem):
\* entry, the user prompt is built
get_version_ranges(c, summary, supported_ecosystem) ==
    /\ calls[c].pc = "idle"
    /\ facade["VulnerabilitySummaryParser"].constructed
    /\ calls' = [calls EXCEPT ![c] =
            [IdleCall EXCEPT !.pc = "run_sync",
                             !.facade = "VulnerabilitySummaryParser",
                             !.method = "get_version_ranges",
                             !.text = summary,
                             !.supported_ecosystem = supported_ecosystem,
                             !.log = <<"prompt">>]]
    /\ UNCHANGED_config

\* VulnerabilitySummaryParser.get_purl(summary) and CPEParser.get_purl(cpe):
\* entry, the user prompt is built
get_purl(c, f, text) ==
    /\ calls[c].pc = "idle"
    /\ facade[f].constructed
    /\ calls' = [calls EXCEPT ![c] =
            [IdleCall EXCEPT !.pc = "run_sync", !.facade = f,
                             !.method = "get_purl", !.text = text,
                             !.log = <<"prompt">>]]
    /\ UNCHANGED_config

\* Mutant: the answer is also kept on the instance (self.last_output = ...).
ModelResponds_KeepsOutput(c, raw) ==
    /\ calls[c].pc = "run_sync"
    /\ calls' = [calls EXCEPT ![c] =
            [@ EXCEPT !.pc = "validate", !.requests = @ + 1,
                      !.endpoint = AgentOf(calls[c]).model.endpoint,
                      !.raw = raw, !.log = Append(@, "request")]]
    /\ facade' = [facade EXCEPT ![calls[c].facade] =
            [@ EXCEPT !.purl_agent = [@ EXCEPT !.system_prompt = "last output"]]]
    /\ UNCHANGED <<environ, OLLAMA_MODEL_NAME, OLLAMA_BASE_URL, OPENAI_API_KEY,
                   OPENAI_MODEL_NAME>>

\* run_sync: the request is sent to the facade's model and answered
ModelResponds(c, raw) ==
    /\ calls[c].pc = "run_sync"
    /\ calls' = [calls EXCEPT ![c] =
            [@ EXCEPT !.pc = "validate", !.requests = @ + 1,
                      !.endpoint = AgentOf(calls[c]).model.endpoint,
                      !.raw = raw, !.log = Append(@, "request")]]
    /\ UNCHANGED_config

\* Mutant: a failed request is sent once more before the failure is raised.
ModelFails_Retry(c) ==
    /\ calls[c].pc = "run_sync"
    /\ calls' = [calls EXCEPT ![c] =
            IF @.requests = 0
            THEN [@ EXCEPT !.requests = @ + 1,
                           !.endpoint = AgentOf(calls[c]).model.endpoint,
                           !.log = Append(@, "request")]
            ELSE Raise([@ EXCEPT !.requests = @ + 1, !.log = Append(@, "request")],
                       "ExternalCallError")]
    /\ UNCHANGED_config

\* run_sync: the request is sent and the provider or the network fails
ModelFails(c) ==
    /\ calls[c].pc = "run_sync"
    /\ calls' = [calls EXCEPT ![c] =
            Raise([@ EXCEPT !.requests = @ + 1,
                            !.endpoint = AgentOf(calls[c]).model.endpoint,
                            !.log = Append(@, "request")],
                  "ExternalCallError")]
    /\ UNCHANGED_config

SchemaOk(output_type, raw) ==
    IF output_type = "Purl" THEN PurlSchemaOk(raw) ELSE VersionsSchemaOk(raw)

SchemaOutput(output_type, raw) ==
    IF output_type = "Purl" THEN PurlSchemaOutput(raw) ELSE VersionsSchemaOutput(raw)

\* Mutant: the answer is used as it came, without validation.
ValidateOutput_Skip(c) ==
    LET call == calls[c]
        ty == AgentOf(call).output_type
    IN  /\ call.pc = "validate"
        /\ calls' = [calls EXCEPT ![c] =
                [call EXCEPT
                    !.output = SchemaOutput(ty, call.raw),
                    !.pc = IF call.method = "get_purl"
                           THEN "from_string" ELSE "affected"]]
        /\ UNCHANGED_config

\* run_sync: the answer is validated against the agent's output_type
ValidateOutput(c) ==
    LET call == calls[c]
        ty == AgentOf(call).output_type
        logged == [call EXCEPT !.log = Append(@, "validate")]
    IN  /\ call.pc = "validate"
        /\ calls' = [calls EXCEPT ![c] =
                IF SchemaOk(ty, call.raw)
                THEN [logged EXCEPT
                        !.output = SchemaOutput(ty, call.raw),
                        !.pc = IF call.method = "get_purl"
                               THEN "from_string" ELSE "affected"]
                ELSE Raise(logged, "ValidationError")]
        /\ UNCHANGED_config

\* Mutant: each resolved range is put in front of the list.
ResolveStep_Prepend(call, field, inputs, event, next_pc) ==
    LET done == Len(call[field])
        eco == call.supported_ecosystem
        s == VersString(eco, inputs[done + 1])
    IN  IF done = Len(inputs)
        THEN [call EXCEPT !.pc = next_pc]
        ELSE IF eco \notin RegisteredSchemes
        THEN Raise([call EXCEPT !.log = Append(@, "lookup")], "KeyError")
        ELSE IF ~VersIsValid(s)
        THEN Raise([call EXCEPT !.log = Append(Append(@, "lookup"), event)],
                   "InvalidRange")
        ELSE [call EXCEPT ![field] = <<VersFromString(s)>> \o @,
                          !.log = Append(Append(@, "lookup"), event)]

\* Mutant: the range class is looked up once, before the comprehension.
ResolveStep_EagerLookup(call, field, inputs, event, next_pc) ==
    LET done == Len(call[field])
        eco == call.supported_ecosystem
        s == VersString(eco, inputs[done + 1])
    IN  IF eco \notin RegisteredSchemes
        THEN Raise([call EXCEPT !.log = Append(@, "lookup")], "KeyError")
        ELSE IF done = Len(inputs)
        THEN [call EXCEPT !.pc = next_pc]
        ELSE IF ~VersIsValid(s)
        THEN Raise([call EXCEPT !.log = Append(Append(@, "lookup"), event)],
                   "InvalidRange")
        ELSE [call EXCEPT ![field] = Append(@, VersFromString(s)),
                          !.log = Append(Append(@, "lookup"), event)]

\* Mutant: an entry that does not parse is replaced by the range of all versions.
ResolveStep_Fallback(call, field, inputs, event, next_pc) ==
    LET done == Len(call[field])
        eco == call.supported_ecosystem
        s == VersString(eco, inputs[done + 1])
    IN  IF done = Len(inputs)
        THEN [call EXCEPT !.pc = next_pc]
        ELSE IF eco \notin RegisteredSchemes
        THEN Raise([call EXCEPT !.log = Append(@, "lookup")], "KeyError")
        ELSE [call EXCEPT
                ![field] = Append(@, IF VersIsValid(s) THEN VersFromString(s)
                                     ELSE [scheme |-> eco, comparator |-> "*",
                                           version |-> "*"]),
                !.log = Append(Append(@, "lookup"), event)]

\* one element of a list comprehension of get_version_ranges:
\* RANGE_CLASS_BY_SCHEMES[eco].from_string(f"vers:{eco}/" + version_range)
ResolveStep(call, field, inputs, event, next_pc) ==
    LET done == Len(call[field])
        eco == call.supported_ecosystem
        s == VersString(eco, inputs[done + 1])
    IN  IF done = Len(inputs)
        THEN [call EXCEPT !.pc = next_pc]
        ELSE IF eco \notin RegisteredSchemes
        THEN Raise([call EXCEPT !.log = Append(@, "lookup")], "KeyError")
        ELSE IF ~VersIsValid(s)
        THEN Raise([call EXCEPT !.log = Append(Append(@, "lookup"), event)],
                   "InvalidRange")
        ELSE [call EXCEPT ![field] = Append(@, VersFromString(s)),
                          !.log = Append(Append(@, "lookup"), event)]

\* affected_version_objs = [... for affected_version_range in affected_version_ranges]
ResolveAffected(c) ==
    /\ calls[c].pc = "affected"
    /\ calls' = [calls EXCEPT ![c] =
            ResolveStep(@, "affected_version_objs", @.output.affected_versions,
                        "parse_affected", "fixed")]
    /\ UNCHANGED_config

\* fixed_version_objs = [... for fixed_version_version_range in fixed_version_ranges]
ResolveFixed(c) ==
    /\ calls[c].pc = "fixed"
    /\ calls' = [calls EXCEPT ![c] =
            ResolveStep(@, "fixed_version_objs", @.output.fixed_versions,
                        "parse_fixed", "return")]
    /\ UNCHANGED_config

\* return affected_version_objs, fixed_version_objs
ReturnRanges(c) ==
    /\ calls[c].pc = "return"
    /\ calls' = [calls EXCEPT ![c] =
            [@ EXCEPT !.pc = "done",
                      !.result = RangesResult(calls[c].affected_version_objs,
                                              calls[c].fixed_version_objs),
                      !.log = Append(@, "return")]]
    /\ UNCHANGED_config

\* return PackageURL.from_string(result.output.string)
ReturnPurl(c) ==
    LET call == calls[c]
        logged == [call EXCEPT !.log = Append(@, "from_string")]
    IN  /\ call.pc = "from_string"
        /\ calls' = [calls EXCEPT ![c] =
                IF PurlIsValid(call.output.string)
                THEN [logged EXCEPT !.pc = "done",
                                    !.result = PurlResult(PurlFromString(call.output.string)),
                                    !.log = Append(@, "return")]
                ELSE Raise(logged, "ValueError")]
        /\ UNCHANGED_config

\* the caller has the value or the exception; the frame is gone
Collect(c) ==
    /\ Finished(c)
    /\ calls' = [calls EXCEPT ![c] = IdleCall]
    /\ UNCHANGED_config

\* the process environment changes after the module was imported
SetEnv(k, v) ==
    /\ environ[k] # v
    /\ environ' = [environ EXCEPT ![k] = v]
    /\ UNCHANGED <<OLLAMA_MODEL_NAME, OLLAMA_BASE_URL, OPENAI_API_KEY,
                   OPENAI_MODEL_NAME, facade, calls>>

\* VulnerabilitySummaryParser() / CPEParser(): a new instance replaces the old
Construct(f) ==
    /\ \A c \in Slots : calls[c].facade # f
    /\ facade' = [facade EXCEPT ![f] = NewFacade(f)]
    /\ UNCHANGED <<environ, OLLAMA_MODEL_NAME, OLLAMA_BASE_URL, OPENAI_API_KEY,
                   OPENAI_MODEL_NAME, calls>>

(***************************************************************************)
(* Specifications.                                                          *)
(***************************************************************************)
\* import of the module: load_dotenv() and the four os.getenv calls
Imported(envs) ==
    /\ environ \in envs
    /\ OLLAMA_MODEL_NAME = environ["OLLAMA_MODEL_NAME"]
    /\ OLLAMA_BASE_URL = environ["OLLAMA_BASE_URL"]
    /\ OPENAI_API_KEY = environ["OPENAI_API_KEY"]
    /\ OPENAI_MODEL_NAME = environ["OPENAI_MODEL_NAME"]
    /\ facade = [f \in Facades |-> Unconstructed]
    /\ calls = [c \in Slots |-> IdleCall]

AllIdle == \A c \in Slots : calls[c].pc = "idle"

\* what the model may answer a call with
OutputsFor(c) ==
    IF calls[c].method = "get_version_ranges" THEN VersionsOutputs ELSE PurlOutputs

\* a few answers and ecosystems, for the specifications that interleave calls
\* or vary the configuration
FewOutputsFor(c) ==
    IF calls[c].method = "get_version_ranges"
    THEN { RawOutput(JAbsent, JList(<<JStr(<<">=", "1.2.3">>)>>),
                     JList(<<JStr(<<"2.0.0">>)>>)),
           RawOutput(JAbsent, JList(<<>>), JList(<<JStr(<<"Not Fixed">>)>>)) }
    ELSE { RawOutput(JStr(<<"pkg", ":", "pypi", "/", "django", "@", "4.2.0">>),
                     JAbsent, JAbsent),
           NoRaw }

FewEcosystems == {"pypi", "unknown"}

\* the steps of a call that is in flight
Step(c) ==
    \/ ModelFails(c)
    \/ ValidateOutput(c)
    \/ ResolveAffected(c)
    \/ ResolveFixed(c)
    \/ ReturnRanges(c)
    \/ ReturnPurl(c)
    \/ Collect(c)

\* Sequential use of the facades, every answer of the model.
Init == Imported({HostedEnv, LocalEnv})

Next ==
    \/ \E f \in Facades : Construct(f)
    \/ \E c \in Slots, eco \in Ecosystems :
            AllIdle /\ get_version_ranges(c, "summary", eco)
    \/ \E c \in Slots, f \in Facades : AllIdle /\ get_purl(c, f, "text")
    \/ \E c \in Slots : \E raw \in OutputsFor(c) : ModelResponds(c, raw)
    \/ \E c \in Slots : Step(c)

Spec == Init /\ [][Next]_vars

\* Calls on the same instances interleaved.
NextConc ==
    \/ \E f \in Facades : Construct(f)
    \/ \E c \in Slots, eco \in FewEcosystems : get_version_ranges(c, "summary", eco)
    \/ \E c \in Slots, f \in Facades : get_purl(c, f, "text")
    \/ \E c \in Slots : \E raw \in FewOutputsFor(c) : ModelResponds(c, raw)
    \/ \E c \in Slots : Step(c)

SpecConc == Init /\ [][NextConc]_vars

\* Every configuration of the process, changing while the facades are used.
InitConfig == Imported(Environments)

NextConfig ==
    \/ \E k \in EnvNames : \E v \in EnvValues(k) : SetEnv(k, v)
    \/ \E f \in Facades : Construct(f)
    \/ \E c \in Slots, eco \in FewEcosystems :
            AllIdle /\ get_version_ranges(c, "summary", eco)
    \/ \E c \in Slots, f \in Facades : AllIdle /\ get_purl(c, f, "text")
    \/ \E c \in Slots : \E raw \in FewOutputsFor(c) : ModelResponds(c, raw)
    \/ \E c \in Slots : Step(c)

SpecConfig == InitConfig /\ [][NextConfig]_vars

(***************************************************************************)
(* Properties.                                                              *)
(***************************************************************************)
Has(log, e) == \E i \in 1..Len(log) : log[i] = e

Count(log, E) == Cardinality({i \in 1..Len(log) : log[i] \in E})

\* the model answered the call's request (the request did not fail)
Answered(c) == Has(calls[c].log, "request") /\ calls[c].error # "ExternalCallError"

\* the answer of a get_version_ranges call passed the Versions schema
RangesCall(c) ==
    /\ calls[c].method = "get_version_ranges"
    /\ Answered(c)
    /\ calls[c].raw.affected_versions.kind = "list"
    /\ calls[c].raw.fixed_versions.kind = "list"
    /\ \A i \in 1..Len(calls[c].raw.affected_versions.items) :
            calls[c].raw.affected_versions.items[i].kind = "str"
    /\ \A i \in 1..Len(calls[c].raw.fixed_versions.items) :
            calls[c].raw.fixed_versions.items[i].kind = "str"

AffectedIn(c) == Texts(calls[c].raw.affected_versions)

FixedIn(c) == Texts(calls[c].raw.fixed_versions)

\* the parse of "vers:<eco>/<constraint>", written out for the constraints
\* that parse
ExpectedRange(eco, constraint) ==
    CASE constraint = <<">=", "1.2.3">> ->
            [scheme |-> eco, comparator |-> ">=", version |-> "1.2.3"]
      [] constraint = <<"2.0.0">> ->
            [scheme |-> eco, comparator |-> "=", version |-> "2.0.0"]
      [] OTHER -> [scheme |-> eco, comparator |-> None, version |-> None]

Parses(eco, constraint) ==
    eco \in {"pypi", "npm"} /\ constraint \in {<<">=", "1.2.3">>, <<"2.0.0">>}

ExpectedRanges(eco, inputs) ==
    [i \in 1..Len(inputs) |-> ExpectedRange(eco, inputs[i])]

\* the parse of the purl strings that parse, written out
ExpectedPurl(string) ==
    CASE string = <<"pkg", ":", "pypi", "/", "django", "@", "4.2.0">> ->
            [type |-> "pypi", namespace |-> None, name |-> "django",
             version |-> "4.2.0"]
      [] string = <<"pkg", ":", "maven", "/", "org.apache", "/", "commons">> ->
            [type |-> "maven", namespace |-> "org.apache", name |-> "commons",
             version |-> None]
      [] OTHER -> NoPurl

IsPurlString(v) == v.kind = "str" /\ ExpectedPurl(v.text) # NoPurl

C2_VersionsSchema ==
    \A c \in Slots :
        (calls[c].method = "get_version_ranges" /\ Has(calls[c].log, "validate")) =>
            IF RangesCall(c)
            THEN /\ calls[c].error # "ValidationError"
                 /\ calls[c].output.affected_versions = AffectedIn(c)
                 /\ calls[c].output.fixed_versions = FixedIn(c)
            ELSE /\ calls[c].pc = "failed"
                 /\ calls[c].error = "ValidationError"
                 /\ calls[c].result = NoResult
                 /\ ~Has(calls[c].log, "lookup")

C2_Witness ==
    \E c \in Slots :
        /\ calls[c].method = "get_version_ranges"
        /\ calls[c].raw.affected_versions = JList(<<JStr(<<"2.0.0">>)>>)
        /\ calls[c].raw.fixed_versions = JAbsent
        /\ calls[c].pc = "failed"
        /\ calls[c].error = "ValidationError"

\* C3: for a registered ecosystem and lists whose entries all parse, the call
\* returns two lists of the lengths of the inputs whose i-th element is the
\* parse of "vers:<eco>/" followed by the i-th input, affected and fixed kept
\* apart, nothing merged, dropped or reordered.
C3_OrderPreserving ==
    \A c \in Slots :
        ( /\ RangesCall(c)
          /\ Finished(c)
          /\ \A i \in 1..Len(AffectedIn(c)) :
                Parses(calls[c].supported_ecosystem, AffectedIn(c)[i])
          /\ \A i \in 1..Len(FixedIn(c)) :
                Parses(calls[c].supported_ecosystem, FixedIn(c)[i])
          /\ calls[c].supported_ecosystem \in {"pypi", "npm"} ) =>
            /\ calls[c].pc = "done"
            /\ calls[c].result.kind = "ranges"
            /\ Len(calls[c].result.affected) = Len(AffectedIn(c))
            /\ Len(calls[c].result.fixed) = Len(FixedIn(c))
            /\ calls[c].result.affected =
                    ExpectedRanges(calls[c].supported_ecosystem, AffectedIn(c))
            /\ calls[c].result.fixed =
                    ExpectedRanges(calls[c].supported_ecosystem, FixedIn(c))

C3_Witness ==
    \E c \in Slots :
        /\ calls[c].pc = "done"
        /\ calls[c].supported_ecosystem = "pypi"
        /\ AffectedIn(c) = << <<">=", "1.2.3">>, <<"2.0.0">> >>
        /\ FixedIn(c) = << <<"2.0.0">>, <<"2.0.0">> >>
        /\ Len(calls[c].result.fixed) = 2

\* C4 as claimed: with an unregistered ecosystem the call fails with the
\* unsupported-ecosystem error whatever the number of constraint strings.
C4_AsClaimed ==
    \A c \in Slots :
        ( /\ RangesCall(c)
          /\ Finished(c)
          /\ calls[c].supported_ecosystem \notin {"pypi", "npm"} ) =>
            /\ calls[c].pc = "failed"
            /\ calls[c].error = "KeyError"

\* C4: with an unregistered ecosystem and at least one constraint string in
\* the affected or the fixed list, the call fails with the unsupported-ecosystem
\* error (KeyError) and returns no ranges, whatever the strings are; with both
\* lists empty no lookup happens and the call returns two empty lists.
C4_UnsupportedEcosystem ==
    \A c \in Slots :
        ( /\ RangesCall(c)
          /\ Finished(c)
          /\ calls[c].supported_ecosystem \notin {"pypi", "npm"} ) =>
            IF Len(AffectedIn(c)) + Len(FixedIn(c)) > 0
            THEN /\ calls[c].pc = "failed"
                 /\ calls[c].error = "KeyError"
                 /\ calls[c].result = NoResult
                 /\ Count(calls[c].log, {"parse_affected", "parse_fixed"}) = 0
            ELSE /\ calls[c].pc = "done"
                 /\ calls[c].result = RangesResult(<<>>, <<>>)
                 /\ ~Has(calls[c].log, "lookup")

C4_Witness ==
    \E c \in Slots :
        /\ RangesCall(c)
        /\ calls[c].supported_ecosystem = "unknown"
        /\ AffectedIn(c) = <<>>
        /\ FixedIn(c) = << <<"2.0.0">> >>
        /\ calls[c].pc = "failed"
        /\ calls[c].error = "KeyError"

\* position of the first entry of `inputs` that does not parse; 0 when all do
FirstBad(eco, inputs) ==
    IF \E i \in 1..Len(inputs) : ~Parses(eco, inputs[i])
    THEN CHOOSE i \in 1..Len(inputs) :
            /\ ~Parses(eco, inputs[i])
            /\ \A j \in 1..(i - 1) : Parses(eco, inputs[j])
    ELSE 0

\* C5: when an entry at any position of either list does not parse, the call
\* fails at the first such entry with the malformed-range error; the caller
\* gets neither list, no entry is skipped and no range is substituted.
C5_AllOrNothing ==
    \A c \in Slots :
        ( /\ RangesCall(c)
          /\ Finished(c)
          /\ FirstBad(calls[c].supported_ecosystem, AffectedIn(c) \o FixedIn(c)) > 0 ) =>
            /\ calls[c].pc = "failed"
            /\ calls[c].result = NoResult
            /\ calls[c].affected_version_objs = <<>>
            /\ calls[c].fixed_version_objs = <<>>
            /\ calls[c].supported_ecosystem \in {"pypi", "npm"} =>
                /\ calls[c].error = "InvalidRange"
                /\ Count(calls[c].log, {"parse_affected", "parse_fixed"}) =
                        FirstBad(calls[c].supported_ecosystem,
                                 AffectedIn(c) \o FixedIn(c))

C5_Witness ==
    \E c \in Slots :
        /\ RangesCall(c)
        /\ calls[c].supported_ecosystem = "npm"
        /\ AffectedIn(c) = << <<">=", "1.2.3">>, <<"2.0.0">> >>
        /\ FixedIn(c) = << <<"2.0.0">>, <<"Not Fixed">> >>
        /\ calls[c].pc = "failed"
        /\ calls[c].error = "InvalidRange"
        /\ Count(calls[c].log, {"parse_affected"}) = 2

\* C6 as claimed: when the answer has no `string` field, get_purl completes
\* normally and returns None.
C6_NoneWhenNotFound ==
    \A c \in Slots :
        ( /\ calls[c].method = "get_purl"
          /\ Answered(c)
          /\ Finished(c)
          /\ calls[c].raw.string.kind = "absent" ) =>
            /\ calls[c].pc = "done"
            /\ calls[c].result = NoResult

PostProcessing == {"lookup", "parse_affected", "parse_fixed", "from_string"}

\* C8: the steps of a call come in the order prompt, request, validation,
\* post-processing, return or failure: no lookup, range parsing or purl
\* construction before the answer passed validation, every lookup and every
\* affected parse before any fixed parse is made, and nothing after a failure.
C8_StepOrder ==
    \A c \in Slots :
        LET log == calls[c].log
        IN  /\ calls[c].pc # "idle" => log[1] = "prompt"
            /\ \A i \in 1..Len(log) :
                /\ log[i] = "prompt" => i = 1
                /\ log[i] = "request" => i = 2
                /\ log[i] = "validate" => i = 3
                /\ log[i] \in PostProcessing =>
                        /\ i > 3
                        /\ log[3] = "validate"
                        /\ SchemaOk(IF calls[c].method = "get_purl"
                                    THEN "Purl" ELSE "Versions", calls[c].raw)
                /\ log[i] \in {"parse_affected", "parse_fixed"} => log[i - 1] = "lookup"
                /\ log[i] = "parse_fixed" =>
                        /\ \A j \in 1..Len(log) : log[j] = "parse_affected" => j < i
                        /\ Count(SubSeq(log, 1, i), {"parse_affected"}) =
                                Len(calls[c].output.affected_versions)
                /\ log[i] \in {"raise", "return"} => i = Len(log)
                /\ log[i] = "raise" => calls[c].pc = "failed" /\ calls[c].result = NoResult
                /\ log[i] = "return" => calls[c].pc = "done"
            /\ Finished(c) => log[Len(log)] \in {"raise", "return"}

C8_Witness ==
    \E c \in Slots :
        /\ calls[c].pc = "failed"
        /\ calls[c].error = "InvalidRange"
        /\ Count(calls[c].log, {"parse_affected"}) = 2
        /\ Count(calls[c].log, {"parse_fixed"}) = 2

\* what a finished call must have ended with, from its own method, its own
\* arguments and the model's answer to it alone
ExpectedOutcome(c) ==
    LET eco == calls[c].supported_ecosystem
        raw == calls[c].raw
        failure(e) == [pc |-> "failed", error |-> e, result |-> NoResult]
        success(r) == [pc |-> "done", error |-> None, result |-> r]
    IN  IF ~Answered(c) THEN failure("ExternalCallError")
        ELSE IF calls[c].method = "get_purl"
        THEN IF IsPurlString(raw.string)
             THEN success(PurlResult(ExpectedPurl(raw.string.text)))
             ELSE failure("ValidationError")
        ELSE IF ~RangesCall(c) THEN failure("ValidationError")
        ELSE IF AffectedIn(c) \o FixedIn(c) = <<>> THEN success(RangesResult(<<>>, <<>>))
        ELSE IF eco \notin {"pypi", "npm"} THEN failure("KeyError")
        ELSE IF FirstBad(eco, AffectedIn(c) \o FixedIn(c)) > 0
        THEN failure("InvalidRange")
        ELSE success(RangesResult(ExpectedRanges(eco, AffectedIn(c)),
                                  ExpectedRanges(eco, FixedIn(c))))

\* C9: calls leave the instance as its constructor made it (model handle and
\* agents), and however calls on the same instances interleave, each finished
\* call ended as its own arguments and its own answer from the model decide.
C9_NoPerCallState ==
    /\ \A f \in Facades : facade[f].constructed => facade[f] = NewFacade(f)
    /\ \A c \in Slots :
        Finished(c) =>
            [pc |-> calls[c].pc, error |-> calls[c].error, result |-> calls[c].result]
                = ExpectedOutcome(c)

C9_Witness ==
    \E c \in Slots, d \in Slots :
        /\ c # d
        /\ calls[c].method = "get_version_ranges"
        /\ calls[d].method = "get_version_ranges"
        /\ calls[c].supported_ecosystem = "pypi"
        /\ calls[d].supported_ecosystem = "pypi"
        /\ calls[c].pc = "done"
        /\ Len(calls[c].result.affected) = 1
        /\ calls[d].pc = "failed"
        /\ calls[d].error = "InvalidRange"

\* the endpoint the import-time configuration selects
SelectedEndpoint ==
    IF /\ OLLAMA_MODEL_NAME \notin {None, ""}
       /\ OLLAMA_BASE_URL \notin {None, ""}
    THEN "local" ELSE "hosted"

C10_Rule ==
    /\ \A f \in Facades :
        facade[f].constructed =>
            /\ facade[f].model.endpoint = SelectedEndpoint
            /\ facade[f].purl_agent.model = facade[f].model
            /\ facade[f].model.model_name =
                    IF SelectedEndpoint = "local"
                    THEN OLLAMA_MODEL_NAME ELSE OPENAI_MODEL_NAME
    /\ \A c \in Slots :
        Has(calls[c].log, "request") => calls[c].endpoint = SelectedEndpoint

C10_Stable ==
    /\ globals' = globals
    /\ \A f \in Facades : facade[f].constructed => facade'[f] = facade[f]

\* C10: both facades select the local endpoint exactly when the local model
\* name and the local base URL were both set and non-empty at import, and the
\* hosted endpoint otherwise (whether or not the hosted name and key are set);
\* the selection of a constructed instance and the endpoint its calls use
\* stay the same over all calls and all later changes of the environment.
C10_EndpointSelection == []C10_Rule /\ [][C10_Stable]_vars

C10_Witness ==
    /\ facade["VulnerabilitySummaryParser"].constructed
    /\ facade["CPEParser"].constructed
    /\ facade["CPEParser"].model.endpoint = "hosted"
    /\ facade["CPEParser"].model.model_name = None
    /\ OLLAMA_MODEL_NAME = "llama3"
    /\ OLLAMA_BASE_URL = ""
    /\ environ["OLLAMA_BASE_URL"] = "http://localhost:11434/v1"
    /\ \E c \in Slots :
        /\ calls[c].facade = "CPEParser"
        /\ calls[c].pc = "done"
        /\ calls[c].endpoint = "hosted"

====
